---------------------------- MODULE Spec2Model ----------------------------
(***************************************************************************)
(* Session lifecycle controller of speech_cn: the SpeechService class of   *)
(* src/src/App.jsx (token refresh, proactive restart, reconnect on error)  *)
(* together with the part of the App component that owns the speaker map   *)
(* and the listening indicator.  Two more components of the repository     *)
(* stand beside it, each with its own variables and specification: the     *)
(* MsSpeechTranscriber class of src/src/Speech.ts and the onTranscribed     *)
(* callback of the earlier App of src/frontend/src/App.jsx.                *)
(*                                                                         *)
(* JavaScript runs every callback to completion on one thread, so one      *)
(* action is one callback or one run of an async function between two      *)
(* awaits.  The suspension points are the token fetch (axios.get), the     *)
(* connection open (startTranscribingAsync) and the graceful stop          *)
(* (stopTranscribingAsync); their completions are separate actions.        *)
(*                                                                         *)
(* The Speech SDK is outside the repository.  What the model takes from    *)
(* it: callbacks are delivered asynchronously, a connection raises result  *)
(* events only while it is open, a closed connection raises no event and   *)
(* never reports a successful open, and the acknowledgment of a graceful   *)
(* stop may arrive, may be replaced by an error, or may never come.  A     *)
(* transcriber copies the credential of its SpeechConfig when it is        *)
(* constructed; a later assignment to the SpeechConfig does not reach it.  *)
(***************************************************************************)
EXTENDS Integers, Sequences, FiniteSets, TLC

(* ------------------------------ bounds -------------------------------- *)
MaxConns == 2     \* ConversationTranscriber objects created in one run
MaxPending == 1   \* start() calls of one caller suspended on the token fetch
MaxDelayed == 1   \* pending 1 s restart timeouts per origin
MaxRefresh == 1   \* refreshToken() calls suspended on the token fetch
MaxWaiters == 1   \* restartSession() calls suspended on one connection's stop
MaxTicks == 2     \* clock ticks counted after sessionStartTime
TickMinutes == 18 \* minutes per clock tick
MaxRecs == 3      \* recognizers one MsSpeechTranscriber creates in one run
MaxStops == 1     \* calls awaiting one recognizer's stop, per kind of caller
MaxUpdates == 2   \* setSpeakers updates queued between two renders

(* ------------------------- program constants -------------------------- *)
STOP_TIMEOUT_MIN == 18   \* sessionDuration >= 18 * 60 * 1000
SESSION_TIMEOUT_MIN == 19   \* SESSION_TIMEOUT_MS = 19 * 60 * 1000

Null == 0
NoTime == -1
ConnIds == 1..MaxConns
SpeakerIds == {"a", "b", "c"}
NoId == ""
Callers == {"app", "direct", "restart"}
Origins == {"canceled", "stopped"}

VARIABLES
  isRunning, autoReconnectEnabled, tokenRefreshInterval, sessionRestartTimer,
  sessionAge, conversationTranscriber, audioConfig, speechConfig,
  connState, connClosed, connBy, nextConn, rsWait, rsHung, usWait,
  startPending, delayed, refreshPending,
  isListening, speakers, hasTranscriptions, firstSeen,
  cfgToken, restartLeft, last, rwin, afterStop, failed,
  \* MsSpeechTranscriber (src/src/Speech.ts): its fields recognizer,
  \* pushStream and started, the recognizers it has created, and what its
  \* last step showed the caller
  speech,
  \* the earlier App (src/frontend/src/App.jsx): the speakers state, the
  \* speakersRef mirror, the state updates React has queued, and the label
  \* of the last transcription
  frontend

svc == <<isRunning, autoReconnectEnabled, tokenRefreshInterval,
         sessionRestartTimer, sessionAge, conversationTranscriber,
         audioConfig, speechConfig>>
sdk == <<connState, connClosed, connBy, nextConn, rsWait, rsHung, usWait>>
pend == <<startPending, delayed, refreshPending>>
reg == <<speakers, hasTranscriptions, firstSeen>>
app == <<isListening, reg>>
service == <<svc, sdk, pend, app, cfgToken, restartLeft, last, rwin,
            afterStop, failed>>
vars == <<service, speech, frontend>>

StopCallers == {"stop", "start"}

(* ------------------------------ helpers ------------------------------- *)
Has(seq, x) == \E i \in 1..Len(seq) : seq[i] = x

EmptySpeakers == [k \in SpeakerIds \cup {NoId} |-> 0]

SpeakersSize(m) == Cardinality({k \in DOMAIN m : m[k] # 0})

\* what the last step showed the caller: the callbacks it made (with the
\* payload of onTranscribed), and whether it was a call of stop(): stop is 0
\* after any other step and alternates between 1 and 2 over successive
\* stop()s; err is the kind of message an onError of the step carried, src
\* the place extractSpeakerId took the speaker id of the step's result from
\* ("dropped" when the handler returned before calling it, "none" when it
\* found no place or the step handled no result)
Last(op, out) ==
  [stop |-> IF op # "stop" THEN 0 ELSE IF last.stop = 1 THEN 2 ELSE 1,
   out |-> out, sid |-> NoId, label |-> 0, err |-> "none", src |-> "none"]

LastErr(op, out, err) ==
  [Last(op, out) EXCEPT !.err = IF Has(out, "onError") THEN err ELSE "none"]

\* App onError: setIsListening(false)
ListeningAfter(cur, out) == IF Has(out, "onError") THEN FALSE ELSE cur

\* rwin follows one proactive restart for the caller: "restarting" from its
\* onSessionRestarting, "closed" once the old connection is closed, "started"
\* once onSessionStarted came after that, "none" from its onSessionRestarted
\* or onSessionRestartFailed on (and for every other restart)
WinStarted(w) == IF w = "closed" THEN "started" ELSE w

WinClosed(w) == IF w = "restarting" THEN "closed" ELSE w

(* ------------------------------- Init --------------------------------- *)
Init ==
  /\ isRunning = FALSE
  /\ autoReconnectEnabled = FALSE
  /\ tokenRefreshInterval = FALSE
  /\ sessionRestartTimer = FALSE
  /\ sessionAge = NoTime
  /\ conversationTranscriber = Null
  /\ audioConfig = Null
  /\ speechConfig = Null
  /\ connState = [c \in ConnIds |-> "unused"]
  /\ connClosed = [c \in ConnIds |-> FALSE]
  /\ connBy = [c \in ConnIds |-> "none"]
  /\ nextConn = 0
  /\ rsWait = [c \in ConnIds |-> 0]
  /\ rsHung = [c \in ConnIds |-> 0]
  /\ usWait = [c \in ConnIds |-> FALSE]
  /\ startPending = [k \in Callers |-> 0]
  /\ delayed = [o \in Origins |-> 0]
  /\ refreshPending = 0
  /\ isListening = FALSE
  /\ speakers = EmptySpeakers
  /\ hasTranscriptions = FALSE
  /\ last = [stop |-> 0, out |-> << >>, sid |-> NoId, label |-> 0,
             err |-> "none", src |-> "none"]
  /\ cfgToken = [c \in ConnIds |-> "none"]
  /\ failed = FALSE
  /\ restartLeft = 0
  /\ rwin = "none"
  /\ firstSeen = << >>
  /\ afterStop = FALSE
  /\ speech = [recognizer |-> Null, pushStream |-> Null, started |-> FALSE,
               recs |-> << >>, out |-> "none"]
  /\ frontend = [speakers |-> << >>, speakersRef |-> << >>,
                 updates |-> << >>, hasTranscriptions |-> FALSE,
                 sid |-> NoId, label |-> 0]

(* ------------------- start(): src/src/App.jsx 146-218 ---------------- *)
\* start() up to its first await: the guard and the token request
StartCall(k) ==
  IF isRunning
  THEN UNCHANGED startPending
  ELSE /\ startPending[k] < MaxPending
       /\ startPending' = [startPending EXCEPT ![k] = @ + 1]

EnableTimer_always == TRUE

\* enableAutoReconnect(): the flag, and the restart timer on a running session
EnableTimer == IF isRunning THEN TRUE ELSE sessionRestartTimer

\* minutes until the restart timeout fires (0 without a timeout): a call of
\* startSessionRestartTimer (73-83) replaces the timeout by one of 19 min
EnableTimerLeft == IF isRunning THEN SESSION_TIMEOUT_MIN ELSE restartLeft

\* a caller invokes start() on the service
Start ==
  /\ UNCHANGED <<speech, frontend>>
  /\ StartCall("direct")
  /\ last' = Last("start", << >>)
  /\ UNCHANGED <<svc, sdk, delayed, refreshPending, app, rwin, cfgToken,
                 restartLeft>>
  /\ afterStop' = FALSE
  /\ failed' = FALSE

\* App handleStart: setIsListening(true); enableAutoReconnect(); await start()
HandleStart ==
  /\ UNCHANGED <<speech, frontend>>
  /\ ~isListening
  /\ isListening' = TRUE
  /\ autoReconnectEnabled' = TRUE
  /\ sessionRestartTimer' = EnableTimer
  /\ restartLeft' = EnableTimerLeft
  /\ StartCall("app")
  /\ last' = Last("handleStart", << >>)
  /\ UNCHANGED <<isRunning, tokenRefreshInterval, sessionAge,
                 conversationTranscriber, audioConfig, speechConfig, sdk,
                 delayed, refreshPending, reg, rwin, cfgToken>>
  /\ afterStop' = FALSE
  /\ failed' = FALSE

StartToken_reusesConfig(k, cfg) ==
  IF k = "restart" /\ cfg # Null THEN "reused" ELSE "start"

\* the token start() builds its SpeechConfig from: the one it has just
\* fetched (150-157), whether or not this.speechConfig still holds the
\* configuration a restart kept
StartToken(k, cfg) == "start"

\* the token arrives: configs and transcriber are created, handlers attached,
\* startTranscribingAsync issued; start() returns to its caller
StartTokenOk(k) ==
  /\ UNCHANGED <<speech, frontend>>
  /\ startPending[k] > 0
  /\ nextConn < MaxConns
  /\ LET c == nextConn + 1
         out == IF k = "restart" THEN <<"onSessionRestarted">> ELSE << >>
     IN /\ startPending' = [startPending EXCEPT ![k] = @ - 1]
        /\ nextConn' = c
        /\ speechConfig' = c
        /\ audioConfig' = c
        /\ conversationTranscriber' = c
        /\ connState' = [connState EXCEPT ![c] = "starting"]
        /\ connBy' = [connBy EXCEPT ![c] = k]
        /\ cfgToken' = [cfgToken EXCEPT ![c] = StartToken(k, speechConfig)]
        /\ last' = Last("startTokenOk", out)
        /\ rwin' = IF k = "restart" THEN "none" ELSE rwin
  /\ UNCHANGED <<isRunning, autoReconnectEnabled, tokenRefreshInterval,
                 sessionRestartTimer, sessionAge, connClosed, rsWait, rsHung,
                 usWait, delayed, refreshPending, app>>
  /\ UNCHANGED <<afterStop, failed, restartLeft>>

\* the token fetch fails: start() sets isRunning false and rethrows; the
\* caller's catch runs (handleStart 573-576, restartSession 139-143).
\* "startRejected" is the rejection of the promise start() returned to a
\* caller outside the service.
StartTokenFail(k) ==
  /\ UNCHANGED <<speech, frontend>>
  /\ startPending[k] > 0
  /\ LET out == IF k = "restart"
                THEN <<"onSessionRestartFailed", "onError">>
                ELSE <<"startRejected">>
     IN /\ startPending' = [startPending EXCEPT ![k] = @ - 1]
        /\ isRunning' = FALSE
        /\ isListening' = IF k = "app" THEN FALSE
                          ELSE ListeningAfter(isListening, out)
        /\ last' = LastErr("startTokenFail", out, "restart")
        /\ rwin' = IF k = "restart" THEN "none" ELSE rwin
  /\ UNCHANGED <<autoReconnectEnabled, tokenRefreshInterval,
                 sessionRestartTimer, sessionAge, conversationTranscriber,
                 audioConfig, speechConfig, sdk, delayed, refreshPending,
                 reg>>
  /\ UNCHANGED <<cfgToken, afterStop, failed, restartLeft>>

OpenArmsTimer_always(enabled, timer) == TRUE

\* the restart timer after the success callback (204-207): armed if
\* auto-reconnect is enabled, left as it was otherwise
OpenArmsTimer(enabled, timer) == IF enabled THEN TRUE ELSE timer

\* success callback of startTranscribingAsync (198-208)
ConnStartOk(c) ==
  /\ UNCHANGED <<speech, frontend>>
  /\ connState[c] = "starting"
  /\ ~connClosed[c]
  /\ connState' = [connState EXCEPT ![c] = "open"]
  /\ isRunning' = TRUE
  /\ sessionAge' = 0
  /\ tokenRefreshInterval' = TRUE
  /\ sessionRestartTimer' = OpenArmsTimer(autoReconnectEnabled,
                                          sessionRestartTimer)
  /\ restartLeft' = IF autoReconnectEnabled THEN SESSION_TIMEOUT_MIN
                     ELSE restartLeft
  /\ last' = Last("connStartOk", <<"onSessionStarted">>)
  /\ rwin' = WinStarted(rwin)
  /\ UNCHANGED <<autoReconnectEnabled, conversationTranscriber, audioConfig,
                 speechConfig, connClosed, connBy, nextConn, rsWait, rsHung,
                 usWait, pend, app>>
  /\ UNCHANGED <<cfgToken, afterStop, failed>>

\* error callback of startTranscribingAsync (209-212)
ConnStartErr(c) ==
  /\ UNCHANGED <<speech, frontend>>
  /\ connState[c] = "starting"
  /\ connState' = [connState EXCEPT ![c] = "failed"]
  /\ isRunning' = FALSE
  /\ isListening' = FALSE
  /\ last' = LastErr("connStartErr", <<"onError">>, "start")
  /\ UNCHANGED rwin
  /\ UNCHANGED <<autoReconnectEnabled, tokenRefreshInterval,
                 sessionRestartTimer, sessionAge, conversationTranscriber,
                 audioConfig, speechConfig, connClosed, connBy, nextConn,
                 rsWait, rsHung, usWait, pend, reg>>
  /\ UNCHANGED <<cfgToken, afterStop, failed, restartLeft>>

(* -------------- enable / disable auto-reconnect: 346-357 -------------- *)
EnableAutoReconnect ==
  /\ UNCHANGED <<speech, frontend>>
  /\ autoReconnectEnabled' = TRUE
  /\ sessionRestartTimer' = EnableTimer
  /\ restartLeft' = EnableTimerLeft
  /\ last' = Last("enableAutoReconnect", << >>)
  /\ UNCHANGED <<isRunning, tokenRefreshInterval, sessionAge,
                 conversationTranscriber, audioConfig, speechConfig, sdk,
                 pend, app, rwin>>
  /\ UNCHANGED <<cfgToken, afterStop, failed>>

DisableAutoReconnect ==
  /\ UNCHANGED <<speech, frontend>>
  /\ autoReconnectEnabled' = FALSE
  /\ sessionRestartTimer' = FALSE
  /\ restartLeft' = 0
  /\ last' = Last("disableAutoReconnect", << >>)
  /\ UNCHANGED <<isRunning, tokenRefreshInterval, sessionAge,
                 conversationTranscriber, audioConfig, speechConfig, sdk,
                 pend, app, rwin>>
  /\ UNCHANGED <<cfgToken, afterStop, failed>>

(* ---------------------- restartSession: 92-144 ------------------------ *)
CloseConn(closed, t) == IF t = Null THEN closed ELSE [closed EXCEPT ![t] = TRUE]

\* restartSession from its guard to its first await.  origin names the
\* trigger; tmrNoop is the restart timer's state if the guard returns.
RestartBody(origin, tmrNoop) ==
  IF ~isRunning \/ ~autoReconnectEnabled
  THEN /\ sessionRestartTimer' = tmrNoop
       /\ restartLeft' = IF tmrNoop THEN restartLeft ELSE 0
       /\ last' = Last("restartSkipped", << >>)
       /\ UNCHANGED <<isRunning, autoReconnectEnabled, tokenRefreshInterval,
                      sessionAge, conversationTranscriber, audioConfig,
                      speechConfig, sdk, startPending, refreshPending,
                      isListening, hasTranscriptions, firstSeen, rwin>>
  ELSE /\ isRunning' = FALSE
       /\ tokenRefreshInterval' = FALSE
       /\ sessionRestartTimer' = FALSE
       /\ restartLeft' = 0
       /\ IF conversationTranscriber # Null
          THEN \* await the acknowledgment of stopTranscribingAsync
               /\ rsWait[conversationTranscriber] < MaxWaiters
               /\ rsWait' = [rsWait EXCEPT ![conversationTranscriber] = @ + 1]
               /\ last' = Last("restartBegin", <<"onSessionRestarting">>)
               /\ rwin' = IF origin = "timer" THEN "restarting" ELSE "none"
               /\ UNCHANGED <<conversationTranscriber, audioConfig,
                              speechConfig, connClosed, startPending>>
          ELSE \* nothing to stop: close, then start() up to its token request
               /\ startPending["restart"] < MaxPending
               /\ startPending' = [startPending EXCEPT !["restart"] = @ + 1]
               /\ conversationTranscriber' = Null
               /\ audioConfig' = Null
               /\ last' = Last("restartBegin", <<"onSessionRestarting">>)
               /\ rwin' = IF origin = "timer" THEN "closed" ELSE "none"
               /\ UNCHANGED <<speechConfig, connClosed, rsWait>>
       /\ UNCHANGED <<autoReconnectEnabled, sessionAge, connState, connBy,
                      nextConn, rsHung, usWait, refreshPending, isListening,
                      hasTranscriptions, firstSeen>>

RestartSession_resetsSpeakers(origin, tmrNoop) ==
  /\ UNCHANGED <<speech, frontend>>
  /\ RestartBody(origin, tmrNoop)
  /\ speakers' = EmptySpeakers
  /\ UNCHANGED <<cfgToken, afterStop, failed>>

\* restartSession does not touch the App's speaker map
RestartSession(origin, tmrNoop) ==
  /\ UNCHANGED <<speech, frontend>>
  /\ RestartBody(origin, tmrNoop)
  /\ UNCHANGED speakers
  /\ UNCHANGED <<cfgToken, afterStop, failed>>

\* callback of the proactive-restart timeout (77-82)
RestartTimerFire ==
  /\ sessionRestartTimer
  /\ RestartSession("timer", FALSE)
  /\ UNCHANGED delayed

\* callback of a 1 s timeout set by the canceled / sessionStopped handler
DelayedRestart(o) ==
  /\ delayed[o] > 0
  /\ delayed' = [delayed EXCEPT ![o] = @ - 1]
  /\ RestartSession(o, sessionRestartTimer)

\* the stop acknowledgment arrives: restartSession resumes (121-138) and runs
\* start() up to its token request, or to its return if isRunning is set
RestartResume(c) ==
  /\ UNCHANGED <<speech, frontend>>
  /\ rsWait[c] > 0
  /\ ~isRunning => startPending["restart"] < MaxPending
  /\ LET t == conversationTranscriber
         out == IF isRunning THEN <<"onSessionRestarted">> ELSE << >>
     IN /\ rsWait' = [rsWait EXCEPT ![c] = @ - 1]
        /\ connState' = [connState EXCEPT
                           ![c] = IF @ \in {"starting", "open", "canceled"}
                                  THEN "stopped" ELSE @]
        /\ connClosed' = CloseConn(connClosed, t)
        /\ conversationTranscriber' = Null
        /\ audioConfig' = Null
        /\ startPending' = IF isRunning THEN startPending
                           ELSE [startPending EXCEPT !["restart"] = @ + 1]
        /\ last' = Last("restartResume", out)
        /\ rwin' = IF isRunning THEN "none" ELSE WinClosed(rwin)
  /\ UNCHANGED <<isRunning, autoReconnectEnabled, tokenRefreshInterval,
                 sessionRestartTimer, sessionAge, speechConfig, connBy,
                 nextConn, rsHung, usWait, delayed, refreshPending, app>>
  /\ UNCHANGED <<cfgToken, afterStop, failed, restartLeft>>

\* the graceful stop reports an error: restartSession passed no error
\* callback, so its promise is never resolved
RestartStopErr(c) ==
  /\ UNCHANGED <<speech, frontend>>
  /\ rsWait[c] > 0
  /\ rsHung[c] < MaxWaiters
  /\ rsWait' = [rsWait EXCEPT ![c] = @ - 1]
  /\ rsHung' = [rsHung EXCEPT ![c] = @ + 1]
  /\ last' = Last("restartStopErr", << >>)
  /\ UNCHANGED <<svc, connState, connClosed, connBy, nextConn, usWait, pend,
                 app, rwin>>
  /\ UNCHANGED <<cfgToken, afterStop, failed, restartLeft>>

(* ---------------------------- stop(): 325-343 ------------------------- *)
StopRefAfter_keepsRef(ref) == ref

\* this.conversationTranscriber = this.audioConfig = this.speechConfig = null
StopRefAfter(ref) == Null

StopService ==
  /\ UNCHANGED <<speech, frontend>>
  /\ tokenRefreshInterval' = FALSE
  /\ sessionRestartTimer' = FALSE
  /\ autoReconnectEnabled' = FALSE
  /\ usWait' = IF conversationTranscriber # Null /\ isRunning
               THEN [usWait EXCEPT ![conversationTranscriber] = TRUE]
               ELSE usWait
  /\ connClosed' = CloseConn(connClosed, conversationTranscriber)
  /\ conversationTranscriber' = StopRefAfter(conversationTranscriber)
  /\ audioConfig' = StopRefAfter(audioConfig)
  /\ speechConfig' = StopRefAfter(speechConfig)
  /\ sessionAge' = NoTime
  /\ restartLeft' = 0
  /\ last' = Last("stop", << >>)
  /\ UNCHANGED rwin
  /\ UNCHANGED <<isRunning, connState, connBy, nextConn, rsWait, rsHung,
                 pend, reg, cfgToken, failed>>
  /\ afterStop' = TRUE

\* a caller invokes stop() on the service (the App's unmount cleanup, 563)
Stop ==
  /\ StopService
  /\ UNCHANGED isListening

\* App handleStop (579-583)
HandleStop ==
  /\ isListening
  /\ StopService
  /\ isListening' = FALSE

\* callback of stop()'s stopTranscribingAsync (334-336)
StopAck(c) ==
  /\ UNCHANGED <<speech, frontend>>
  /\ usWait[c]
  /\ usWait' = [usWait EXCEPT ![c] = FALSE]
  /\ connState' = [connState EXCEPT
                     ![c] = IF @ \in {"starting", "open", "canceled"}
                            THEN "stopped" ELSE @]
  /\ isRunning' = FALSE
  /\ last' = Last("stopAck", << >>)
  /\ UNCHANGED <<autoReconnectEnabled, tokenRefreshInterval,
                 sessionRestartTimer, sessionAge, conversationTranscriber,
                 audioConfig, speechConfig, connClosed, connBy, nextConn,
                 rsWait, rsHung, pend, app, rwin>>
  /\ UNCHANGED <<cfgToken, afterStop, failed, restartLeft>>

\* stop()'s graceful stop reports an error: no error callback was passed
StopErr(c) ==
  /\ UNCHANGED <<speech, frontend>>
  /\ usWait[c]
  /\ usWait' = [usWait EXCEPT ![c] = FALSE]
  /\ last' = Last("stopErr", << >>)
  /\ UNCHANGED <<svc, connState, connClosed, connBy, nextConn, rsWait,
                 rsHung, pend, app, rwin>>
  /\ UNCHANGED <<cfgToken, afterStop, failed, restartLeft>>

(* ---------------- connection event handlers: 220-302 ----------------- *)
\* e.errorDetails, by the substrings the handler looks for
ErrorDetails == [has1006 : BOOLEAN, hasTimeout : BOOLEAN]

\* "StatusCode: 0" / "Unable to contact server" / "StatusCode:0" (252-255)
IsTimeoutError(d) == d.hasTimeout

\* the hint the handler appends to errorMsg (257-261)
ErrorMsg(d) ==
  IF d.has1006 THEN "1006" ELSE IF IsTimeoutError(d) THEN "timeout" ELSE "other"

SelfHeal_ignoresFlag(d, enabled, wasRunning) ==
  ~d.has1006 /\ IsTimeoutError(d) /\ wasRunning

\* the branch that schedules restartSession and returns without onError
\* (257-269)
SelfHeal(d, enabled, wasRunning) ==
  ~d.has1006 /\ IsTimeoutError(d) /\ enabled /\ wasRunning

\* the session is Active on connection c
ActiveOn(c) ==
  /\ isRunning
  /\ conversationTranscriber = c
  /\ connState[c] = "open"
  /\ ~connClosed[c]

\* canceled handler (246-273)
Canceled(c, d) ==
  /\ UNCHANGED <<speech, frontend>>
  /\ connState[c] = "open"
  /\ ~connClosed[c]
  /\ LET wasRunning == isRunning
         heal == SelfHeal(d, autoReconnectEnabled, wasRunning)
         out == IF heal THEN << >> ELSE <<"onError">>
     IN /\ heal => delayed["canceled"] < MaxDelayed
        /\ delayed' = IF heal THEN [delayed EXCEPT !["canceled"] = @ + 1]
                      ELSE delayed
        /\ isRunning' = FALSE
        /\ connState' = [connState EXCEPT ![c] = "canceled"]
        /\ isListening' = ListeningAfter(isListening, out)
        /\ last' = LastErr("canceled", out, ErrorMsg(d))
        /\ failed' = IF ActiveOn(c) /\ ErrorMsg(d) # "timeout" THEN TRUE
                      ELSE failed
        /\ UNCHANGED rwin
  /\ UNCHANGED <<autoReconnectEnabled, tokenRefreshInterval,
                 sessionRestartTimer, sessionAge, conversationTranscriber,
                 audioConfig, speechConfig, connClosed, connBy, nextConn,
                 rsWait, rsHung, usWait, startPending, refreshPending,
                 reg>>
  /\ UNCHANGED <<cfgToken, afterStop, restartLeft>>

\* Date.now() - sessionStartTime, in minutes (286-288)
SessionDuration == IF sessionAge = NoTime THEN 0 ELSE sessionAge * TickMinutes

\* sessionStopped handler (275-301)
SessionStopped(c) ==
  /\ UNCHANGED <<speech, frontend>>
  /\ connState[c] \in {"open", "canceled"}
  /\ ~connClosed[c]
  /\ LET wasRunning == isRunning
         heal == /\ autoReconnectEnabled
                 /\ wasRunning
                 /\ SessionDuration >= STOP_TIMEOUT_MIN
         out == IF heal THEN << >> ELSE <<"onSessionStopped">>
     IN /\ heal => delayed["stopped"] < MaxDelayed
        /\ delayed' = IF heal THEN [delayed EXCEPT !["stopped"] = @ + 1]
                      ELSE delayed
        /\ isRunning' = FALSE
        /\ connState' = [connState EXCEPT ![c] = "stopped"]
        /\ last' = Last("sessionStopped", out)
        /\ UNCHANGED rwin
  /\ UNCHANGED <<autoReconnectEnabled, tokenRefreshInterval,
                 sessionRestartTimer, sessionAge, conversationTranscriber,
                 audioConfig, speechConfig, connClosed, connBy, nextConn,
                 rsWait, rsHung, usWait, startPending, refreshPending, app>>
  /\ UNCHANGED <<cfgToken, afterStop, failed, restartLeft>>

(* --------------------- extractSpeakerId: 304-323 ---------------------- *)
\* a falsy value (undefined, null, "") is NoId
Truthy(x) == x # NoId

\* an exception that leaves the function
Threw == "threw"

Caught_rethrows(x) == x

\* the empty catch block and the return null after it (321-322)
Caught(x) == IF x = Threw THEN NoId ELSE x

\* JSON.parse(result.json) and the ids of the parsed value (310-313)
JsonId(j) == IF j.kind = "bad" THEN Threw ELSE j.id

ExtractSpeakerId(r) ==
  IF Truthy(r.userId) \/ Truthy(r.speakerId)
  THEN IF Truthy(r.userId) THEN r.userId ELSE r.speakerId
  ELSE Caught(IF r.json.kind # "absent" THEN JsonId(r.json)
              ELSE IF r.priv.kind = "obj" THEN r.priv.id
              ELSE NoId)

\* the return statement of extractSpeakerId that is reached: 306 ("field"),
\* 311 ("json"), 317 ("priv"), 322 after the catch ("caught") or 322 with
\* nothing to look into ("none")
ExtractPath(r) ==
  IF Truthy(r.userId) \/ Truthy(r.speakerId) THEN "field"
  ELSE IF r.json.kind # "absent"
       THEN IF Caught(JsonId(r.json)) = JsonId(r.json) THEN "json"
            ELSE "caught"
  ELSE IF r.priv.kind = "obj" THEN "priv"
  ELSE "none"

Res(reason, text, u, s, j, p) ==
  [reason |-> reason, text |-> text, userId |-> u, speakerId |-> s,
   json |-> j, priv |-> p]

Absent == [kind |-> "absent", id |-> NoId]
BadJson == [kind |-> "bad", id |-> NoId]
Obj(id) == [kind |-> "obj", id |-> id]

\* the result shapes the events of this specification carry
Shapes ==
  {<<u, NoId, Absent, Absent>> : u \in SpeakerIds \cup {NoId}}
    \cup {<<NoId, "a", Absent, Absent>>, <<NoId, NoId, Obj("b"), Absent>>,
          <<NoId, NoId, Absent, Obj("c")>>}

Results(reasons, shapes) ==
  {Res(rs, tx, sh[1], sh[2], sh[3], sh[4]) :
     rs \in reasons, tx \in {"", "t"}, sh \in shapes}

\* every combination of the three places an id can be in: the fields of the
\* result, result.json (absent, unparsable, parsed with or without an id)
\* and result.privResult (null, with or without an id)
AllShapes ==
  {<<u, sp, j, pv>> : u \in {NoId, "a"}, sp \in {NoId, "b"},
                      j \in {Absent, BadJson, Obj(NoId), Obj("c")},
                      pv \in {Absent, Obj(NoId), Obj("a")}}

AllResults ==
  Results({"RecognizedSpeech", "RecognizingSpeech", "NoMatch"}, AllShapes)

Forwarded_ignoresText(r, reason) == r.reason = reason

\* the condition under which a handler calls its callback (222-225, 235-238)
Forwarded(r, reason) == r.reason = reason /\ r.text # ""

(* ----------------------- App callbacks: 451-500 ----------------------- *)
OnTranscribedSpeakers_countsNull(prev, speakerId) ==
  IF prev[speakerId] = 0
  THEN [prev EXCEPT ![speakerId] = SpeakersSize(prev) + 1]
  ELSE prev

OnTranscribedSpeakers_renumbers(prev, speakerId) ==
  IF Truthy(speakerId)
  THEN [prev EXCEPT ![speakerId] = SpeakersSize(prev) + 1]
  ELSE prev

OnTranscribedSpeakers_sizeAsNumber(prev, speakerId) ==
  IF Truthy(speakerId) /\ prev[speakerId] = 0
  THEN [prev EXCEPT ![speakerId] = IF SpeakersSize(prev) = 0 THEN 1
                                   ELSE SpeakersSize(prev)]
  ELSE prev

\* newSpeakers of the setSpeakers updater (466-469)
OnTranscribedSpeakers(prev, speakerId) ==
  IF Truthy(speakerId) /\ prev[speakerId] = 0
  THEN [prev EXCEPT ![speakerId] = SpeakersSize(prev) + 1]
  ELSE prev

\* speakerNum of the new transcription; 0 stands for the label "Unknown"
SpeakerNum(newSpeakers, speakerId) == newSpeakers[speakerId]

\* transcribed handler (233-244) and App onTranscribed (464-500); an
\* exception leaving extractSpeakerId would abort the handler before the
\* callback
Transcribed(c, r) ==
  /\ UNCHANGED <<speech, frontend>>
  /\ connState[c] = "open"
  /\ ~connClosed[c]
  /\ IF Forwarded(r, "RecognizedSpeech") /\ ExtractSpeakerId(r) # Threw
     THEN LET sid == ExtractSpeakerId(r)
              newSpeakers == OnTranscribedSpeakers(speakers, sid)
          IN /\ speakers' = newSpeakers
             /\ hasTranscriptions' = TRUE
             /\ firstSeen' = IF Truthy(sid) /\ ~Has(firstSeen, sid)
                             THEN Append(firstSeen, sid) ELSE firstSeen
             /\ last' = [Last("transcribed", <<"onTranscribed">>) EXCEPT
                           !.sid = sid,
                           !.label = SpeakerNum(newSpeakers, sid),
                           !.src = ExtractPath(r)]
     ELSE /\ last' = [Last("transcribedDropped", << >>) EXCEPT
                           !.src = "dropped"]
          /\ UNCHANGED <<reg>>
  /\ UNCHANGED <<svc, sdk, pend, isListening, rwin>>
  /\ UNCHANGED <<cfgToken, afterStop, failed, restartLeft>>

\* transcribing handler (221-231) and App onTranscribing (451-463)
Transcribing(c, r) ==
  /\ UNCHANGED <<speech, frontend>>
  /\ connState[c] = "open"
  /\ ~connClosed[c]
  /\ IF Forwarded(r, "RecognizingSpeech") /\ ExtractSpeakerId(r) # Threw
     THEN last' = [Last("transcribing", <<"onTranscribing">>) EXCEPT
                     !.sid = ExtractSpeakerId(r),
                     !.src = ExtractPath(r)]
     ELSE last' = [Last("transcribingDropped", << >>) EXCEPT
                     !.src = "dropped"]
  /\ UNCHANGED <<svc, sdk, pend, app, rwin>>
  /\ UNCHANGED <<cfgToken, afterStop, failed, restartLeft>>

\* App handleClear (585-590); the button is disabled without transcriptions
HandleClear ==
  /\ UNCHANGED <<speech, frontend>>
  /\ hasTranscriptions
  /\ speakers' = EmptySpeakers
  /\ hasTranscriptions' = FALSE
  /\ firstSeen' = << >>
  /\ last' = Last("handleClear", << >>)
  /\ UNCHANGED <<svc, sdk, pend, isListening, rwin>>
  /\ UNCHANGED <<cfgToken, afterStop, failed, restartLeft>>

(* ------------------------- token refresh: 45-71 ----------------------- *)
\* a tick of the refresh interval: refreshToken() up to its token request
TokenRefreshTick ==
  /\ UNCHANGED <<speech, frontend>>
  /\ tokenRefreshInterval
  /\ IF conversationTranscriber # Null /\ speechConfig # Null
     THEN /\ refreshPending < MaxRefresh
          /\ refreshPending' = refreshPending + 1
     ELSE UNCHANGED refreshPending
  /\ last' = Last("tokenRefreshTick", << >>)
  /\ UNCHANGED <<svc, sdk, startPending, delayed, app, rwin>>
  /\ UNCHANGED <<cfgToken, afterStop, failed, restartLeft>>

RefreshOutcome_alwaysError(cfg) == <<"onError">>

\* what refreshToken reports once the token is there (49-53): the store into
\* this.speechConfig throws inside the try if stop() has set the field to
\* null meanwhile
RefreshOutcome(cfg) ==
  IF cfg = Null THEN <<"onError">> ELSE <<"onTokenRefreshed">>

\* the credential connection c holds: the token of the configuration it was
\* constructed from (186-189); no statement of the service assigns it later
ConnToken(c) == IF connState[c] = "unused" THEN "none" ELSE "start"

\* the token arrives and is stored in this.speechConfig (48-51)
RefreshTokenOk ==
  /\ UNCHANGED <<speech, frontend>>
  /\ refreshPending > 0
  /\ refreshPending' = refreshPending - 1
  /\ LET out == RefreshOutcome(speechConfig)
     IN /\ isListening' = ListeningAfter(isListening, out)
        /\ last' = LastErr("refreshTokenOk", out, "refresh")
        /\ cfgToken' = IF speechConfig = Null THEN cfgToken
                        ELSE [cfgToken EXCEPT ![speechConfig] = "refresh"]
        /\ UNCHANGED rwin
  /\ UNCHANGED <<svc, sdk, startPending, delayed, reg>>
  /\ UNCHANGED <<afterStop, failed, restartLeft>>

RefreshTokenFail_tearsDown ==
  /\ UNCHANGED <<speech, frontend>>
  /\ refreshPending > 0
  /\ refreshPending' = refreshPending - 1
  /\ isListening' = FALSE
  /\ isRunning' = FALSE
  /\ tokenRefreshInterval' = FALSE
  /\ last' = LastErr("refreshTokenFail", <<"onError">>, "refresh")
  /\ UNCHANGED rwin
  /\ UNCHANGED <<autoReconnectEnabled, sessionRestartTimer, sessionAge,
                 conversationTranscriber, audioConfig, speechConfig, sdk,
                 startPending, delayed, reg>>
  /\ UNCHANGED <<cfgToken, afterStop, failed, restartLeft>>

\* the token fetch of refreshToken fails (52-54)
RefreshTokenFail ==
  /\ UNCHANGED <<speech, frontend>>
  /\ refreshPending > 0
  /\ refreshPending' = refreshPending - 1
  /\ isListening' = FALSE
  /\ last' = LastErr("refreshTokenFail", <<"onError">>, "refresh")
  /\ UNCHANGED rwin
  /\ UNCHANGED <<svc, sdk, startPending, delayed, reg>>
  /\ UNCHANGED <<cfgToken, afterStop, failed, restartLeft>>

(* ------------------------------- clock -------------------------------- *)
\* the clock advances by one tick; a restart timeout that falls due within
\* the tick fires first
Tick ==
  /\ UNCHANGED <<speech, frontend>>
  /\ sessionAge # NoTime
  /\ sessionAge < MaxTicks
  /\ sessionRestartTimer => restartLeft > TickMinutes
  /\ sessionAge' = sessionAge + 1
  /\ restartLeft' = IF sessionRestartTimer THEN restartLeft - TickMinutes
                     ELSE restartLeft
  /\ last' = Last("tick", << >>)
  /\ UNCHANGED <<isRunning, autoReconnectEnabled, tokenRefreshInterval,
                 sessionRestartTimer, conversationTranscriber, audioConfig,
                 speechConfig, sdk, pend, app, rwin>>
  /\ UNCHANGED <<cfgToken, afterStop, failed>>

(* ---------------------------- specification --------------------------- *)
\* steps of the service that no caller takes: completions, timers, events
Internal ==
  \/ \E k \in Callers : StartTokenOk(k)
  \/ \E k \in Callers : StartTokenFail(k)
  \/ \E c \in ConnIds : ConnStartOk(c)
  \/ \E c \in ConnIds : ConnStartErr(c)
  \/ RestartTimerFire
  \/ \E o \in Origins : DelayedRestart(o)
  \/ \E c \in ConnIds : RestartResume(c)
  \/ \E c \in ConnIds : RestartStopErr(c)
  \/ \E c \in ConnIds : StopAck(c)
  \/ \E c \in ConnIds : StopErr(c)
  \/ \E c \in ConnIds, d \in ErrorDetails : Canceled(c, d)
  \/ \E c \in ConnIds : SessionStopped(c)
  \/ TokenRefreshTick
  \/ RefreshTokenOk
  \/ RefreshTokenFail
  \/ Tick

\* the SpeechService under any caller of its public methods
Next ==
  \/ Start
  \/ Stop
  \/ EnableAutoReconnect
  \/ DisableAutoReconnect
  \/ Internal

Spec == Init /\ [][Next]_vars

(* -------------- MsSpeechTranscriber: src/src/Speech.ts ----------------- *)
\* speech.recs[r] is the r-th recognizer the transcriber created, with the
\* push stream created for it: the state of the recognizer ("starting" from
\* startTranscribingAsync to its callback, then "started" or "failed";
\* "stopped" once a graceful stop was acknowledged), whether close() was
\* called on the recognizer and on the stream, and the calls of stop()
\* awaiting its stopTranscribingAsync, by the caller of that stop().
\* speech.out is what the last step showed the caller.  Lines 47 and 48 both
\* declare audioConfig; the model follows the other statements of start().
NewRec ==
  [state |-> "starting", closed |-> FALSE, streamClosed |-> FALSE,
   stops |-> [k \in StopCallers |-> 0]]

RecIds == 1..MaxRecs

Created == 1..Len(speech.recs)

CloseRec(recs, r) ==
  IF r = Null THEN recs ELSE [recs EXCEPT ![r].closed = TRUE]

CloseStream(recs, p) ==
  IF p = Null THEN recs ELSE [recs EXCEPT ![p].streamClosed = TRUE]

StartedAfterDispose_keeps(st) == st

\* this.started = false (112)
StartedAfterDispose(st) == FALSE

\* disposeRecognizer (107-113)
DisposeRecognizer(sp) ==
  [sp EXCEPT !.recs = CloseStream(CloseRec(sp.recs, sp.recognizer),
                                  sp.pushStream),
             !.recognizer = Null,
             !.pushStream = Null,
             !.started = StartedAfterDispose(sp.started)]

\* start() from the creation of the push stream to the await of
\* startTranscribingAsync (36-80)
CreateRecognizer(sp) ==
  LET r == Len(sp.recs) + 1
  IN [sp EXCEPT !.recs = Append(sp.recs, NewRec),
                !.pushStream = r,
                !.recognizer = r,
                !.out = "pending"]

\* stop() from its guard to its await (93-99), called by k; without
\* recognizer the promise is never settled
AwaitStop(sp, k) ==
  IF sp.recognizer = Null THEN [sp EXCEPT !.out = "hung"]
  ELSE [sp EXCEPT !.recs[sp.recognizer].stops[k] = @ + 1, !.out = "pending"]

\* start() up to its first await (31-34 and, if not started, 36-80)
MsStart ==
  /\ IF speech.started
     THEN /\ speech.recognizer # Null
               => speech.recs[speech.recognizer].stops["start"] < MaxStops
          /\ speech' = AwaitStop(speech, "start")
     ELSE /\ Len(speech.recs) < MaxRecs
          /\ speech' = CreateRecognizer(speech)
  /\ UNCHANGED <<service, frontend>>

\* success callback of startTranscribingAsync (72-75)
MsStartOk(r) ==
  /\ r \in Created
  /\ speech.recs[r].state = "starting"
  /\ ~speech.recs[r].closed
  /\ speech' = [speech EXCEPT !.recs[r].state = "started",
                              !.started = TRUE,
                              !.out = "startResolved"]
  /\ UNCHANGED <<service, frontend>>

\* error callback of startTranscribingAsync (76-78): start() rejects
MsStartErr(r) ==
  /\ r \in Created
  /\ speech.recs[r].state = "starting"
  /\ speech' = [speech EXCEPT !.recs[r].state = "failed",
                              !.out = "startRejected"]
  /\ UNCHANGED <<service, frontend>>

\* stop() called by the user of the class, up to its await (92-99)
MsStop ==
  /\ IF ~speech.started
     THEN speech' = [speech EXCEPT !.out = "stopReturned"]
     ELSE /\ speech.recognizer # Null
               => speech.recs[speech.recognizer].stops["stop"] < MaxStops
          /\ speech' = AwaitStop(speech, "stop")
  /\ UNCHANGED <<service, frontend>>

\* success callback of stopTranscribingAsync (96): stop() disposes (100) and
\* resolves; a start() that awaited it goes on to create its recognizer
MsStopAck(r, k) ==
  /\ r \in Created
  /\ speech.recs[r].stops[k] > 0
  /\ k = "start" => Len(speech.recs) < MaxRecs
  /\ LET acked == [speech EXCEPT
                     !.recs[r].stops[k] = @ - 1,
                     !.recs[r].state = IF @ \in {"starting", "started"}
                                       THEN "stopped" ELSE @]
         disposed == DisposeRecognizer(acked)
     IN speech' = IF k = "start" THEN CreateRecognizer(disposed)
                  ELSE [disposed EXCEPT !.out = "stopResolved"]
  /\ UNCHANGED <<service, frontend>>

\* error callback of stopTranscribingAsync (97): stop() rejects, and so does
\* a start() that awaited it
MsStopErr(r, k) ==
  /\ r \in Created
  /\ speech.recs[r].stops[k] > 0
  /\ speech' = [speech EXCEPT
                  !.recs[r].stops[k] = @ - 1,
                  !.out = IF k = "start" THEN "startRejected"
                          ELSE "stopRejected"]
  /\ UNCHANGED <<service, frontend>>

\* pushAudio (83-90)
MsPushAudio ==
  /\ speech' = [speech EXCEPT
                  !.out = IF ~speech.started \/ speech.pushStream = Null
                          THEN "dropped" ELSE "written"]
  /\ UNCHANGED <<service, frontend>>

\* isStarted (103-105)
IsStarted == speech.started

NextMs ==
  \/ MsStart
  \/ MsStop
  \/ MsPushAudio
  \/ \E r \in RecIds : MsStartOk(r)
  \/ \E r \in RecIds : MsStartErr(r)
  \/ \E r \in RecIds, k \in StopCallers : MsStopAck(r, k)
  \/ \E r \in RecIds, k \in StopCallers : MsStopErr(r, k)

SpecMs == Init /\ [][NextMs]_vars

(* --------- the earlier App: src/frontend/src/App.jsx 5-104 ------------- *)
\* A Map is a function from the keys it holds.  React is outside the
\* repository.  What the model takes from it: a state update is queued and
\* applied, in order, at the next render; an updater function passed to a
\* state setter runs at that render, but React may also run it inside the
\* call of the setter when no update is queued for the component; after a
\* render that changed speakers, the effect of 13-16 has run.
\* newSpeakers of the setSpeakers updater (31-34)
FAddSpeaker(prev, speakerId) ==
  IF Truthy(speakerId) /\ speakerId \notin DOMAIN prev
  THEN prev @@ (speakerId :> Cardinality(DOMAIN prev) + 1)
  ELSE prev

\* the update a call of setSpeakers queues: the updater of 30-38 for an id,
\* or the empty Map of 103
AddUpdate(speakerId) == [kind |-> "add", sid |-> speakerId]

ClearUpdate == [kind |-> "clear", sid |-> NoId]

RECURSIVE ApplyUpdates(_, _)
\* the speakers state after React has applied the queued updates in order
ApplyUpdates(updates, state) ==
  IF updates = << >> THEN state
  ELSE ApplyUpdates(Tail(updates),
                    IF Head(updates).kind = "clear" THEN << >>
                    ELSE FAddSpeaker(state, Head(updates).sid))

RECURSIVE TranscriptionsAfter(_, _)
\* whether transcriptions is non-empty after the queued updates (49-62, 102)
TranscriptionsAfter(updates, has) ==
  IF updates = << >> THEN has
  ELSE TranscriptionsAfter(Tail(updates), Head(updates).kind = "add")

\* speakerName of 41-44; 0 stands for the label "Unknown"
FSpeakerName(currentSpeakers, speakerId) ==
  IF Truthy(speakerId) /\ speakerId \in DOMAIN currentSpeakers
  THEN currentSpeakers[speakerId] ELSE 0

\* onTranscribed (25-63); eager: React runs the updater inside setSpeakers,
\* which assigns speakersRef.current (36) before it is read (41)
FTranscribed(speakerId, eager) ==
  /\ Len(frontend.updates) < MaxUpdates
  /\ eager => frontend.updates = << >>
  /\ LET ref == IF eager THEN FAddSpeaker(frontend.speakers, speakerId)
                ELSE frontend.speakersRef
     IN frontend' = [frontend EXCEPT
                       !.updates = Append(@, AddUpdate(speakerId)),
                       !.speakersRef = ref,
                       !.sid = speakerId,
                       !.label = FSpeakerName(ref, speakerId)]
  /\ UNCHANGED <<service, speech>>

\* React renders: the queued updates are applied (each updater assigning
\* speakersRef.current, 36) and the effect of 13-16 runs
FRender ==
  /\ frontend.updates # << >>
  /\ LET state == ApplyUpdates(frontend.updates, frontend.speakers)
     IN frontend' = [frontend EXCEPT
                       !.speakers = state,
                       !.speakersRef = state,
                       !.hasTranscriptions =
                          TranscriptionsAfter(frontend.updates, @),
                       !.updates = << >>]
  /\ UNCHANGED <<service, speech>>

\* handleClear (101-104); the button is disabled without transcriptions
FHandleClear ==
  /\ frontend.hasTranscriptions
  /\ Len(frontend.updates) < MaxUpdates
  /\ frontend' = [frontend EXCEPT !.updates = Append(@, ClearUpdate)]
  /\ UNCHANGED <<service, speech>>

NextFrontend ==
  \/ \E id \in SpeakerIds \cup {NoId}, eager \in BOOLEAN :
       FTranscribed(id, eager)
  \/ FRender
  \/ FHandleClear

SpecFrontend == Init /\ [][NextFrontend]_vars

\* the App driving the service through its buttons, with the result events
\* of its connections; restarts come from the proactive timer and from
\* transient cancellations
NextApp ==
  \/ HandleStart
  \/ HandleStop
  \/ HandleClear
  \/ \E c \in ConnIds, r \in Results({"RecognizedSpeech", "NoMatch"}, Shapes) :
       Transcribed(c, r)
  \/ \E c \in ConnIds, r \in Results({"RecognizingSpeech"}, Shapes) :
       Transcribing(c, r)
  \/ \E k \in Callers : StartTokenOk(k)
  \/ \E k \in Callers : StartTokenFail(k)
  \/ \E c \in ConnIds : ConnStartOk(c)
  \/ \E c \in ConnIds : ConnStartErr(c)
  \/ RestartTimerFire
  \/ \E o \in Origins : DelayedRestart(o)
  \/ \E c \in ConnIds : RestartResume(c)
  \/ \E c \in ConnIds : StopAck(c)
  \/ \E c \in ConnIds, d \in ErrorDetails : Canceled(c, d)
  \/ \E c \in ConnIds : SessionStopped(c)

SpecApp == Init /\ [][NextApp]_vars

\* the App driving the service through its start / stop buttons, with the
\* token refresh and the failures of the connection, and no result events
NextListen ==
  \/ HandleStart
  \/ HandleStop
  \/ \E k \in Callers : StartTokenOk(k)
  \/ \E k \in Callers : StartTokenFail(k)
  \/ \E c \in ConnIds : ConnStartOk(c)
  \/ \E c \in ConnIds : ConnStartErr(c)
  \/ TokenRefreshTick
  \/ RefreshTokenOk
  \/ RefreshTokenFail
  \/ RestartTimerFire
  \/ \E o \in Origins : DelayedRestart(o)
  \/ \E c \in ConnIds : RestartResume(c)
  \/ \E c \in ConnIds : StopAck(c)
  \/ \E c \in ConnIds, d \in ErrorDetails : Canceled(c, d)

SpecListen == Init /\ [][NextListen]_vars

\* one session of the App receiving results of every shape
NextExtract ==
  \/ HandleStart
  \/ HandleStop
  \/ HandleClear
  \/ StartTokenOk("app")
  \/ \E c \in ConnIds : ConnStartOk(c)
  \/ \E c \in ConnIds : StopAck(c)
  \/ \E c \in ConnIds, r \in AllResults : Transcribed(c, r)
  \/ \E c \in ConnIds, r \in AllResults : Transcribing(c, r)

SpecExtract == Init /\ [][NextExtract]_vars

(* ------------------------------ claims -------------------------------- *)
Emits(l, cb) == Has(l.out, cb)

\* a connection that was created and has not been closed
Unclosed(c) == connState[c] # "unused" /\ ~connClosed[c]

\* restartSession calls that passed the guard and whose new connection has
\* not yet confirmed open (nor failed)
RestartsInFlight ==
  LET W[c \in 0..MaxConns] ==
        IF c = 0 THEN 0
        ELSE W[c - 1] + rsWait[c] + rsHung[c]
             + (IF connBy[c] = "restart" /\ connState[c] = "starting"
                   /\ ~connClosed[c] THEN 1 ELSE 0)
  IN W[MaxConns] + startPending["restart"]

\* C1: the restart scheduled 1 s after a transient cancellation of an Active
\* session executes (it emits onSessionRestarting) whenever auto-reconnect is
\* still enabled when the timeout fires.
C1_DelayedRestartExecutes ==
  [][(DelayedRestart("canceled") /\ autoReconnectEnabled)
       => Emits(last', "onSessionRestarting")]_vars

\* C2: at most one restartSession is in flight at a time: while one is in
\* flight, no restart trigger starts another.
C2_OneRestartInFlight == RestartsInFlight <= 1

\* C3: at most one Connection that was created and not yet closed exists.
C3_OneUnclosedConnection == Cardinality({c \in ConnIds : Unclosed(c)}) <= 1

\* a connection that is opening or open
Live(c) == connState[c] \in {"starting", "open"} /\ ~connClosed[c]

\* C4: from the return of stop() until the caller's next start(), no
\* Connection is live and neither timer is armed.
C4_StoppedStaysReleased ==
  afterStop => /\ \A c \in ConnIds : ~Live(c)
               /\ ~tokenRefreshInterval
               /\ ~sessionRestartTimer

\* C5: within a proactive restart the caller sees onSessionRestarting, the
\* old connection closed, onSessionStarted, onSessionRestarted in that order,
\* and neither onSessionStopped nor onError in between.
C5_ProactiveRestartOrder ==
  [][rwin # "none" =>
       /\ Emits(last', "onSessionRestarted") => rwin = "started"
       /\ ~Emits(last', "onSessionStopped")
       /\ Emits(last', "onError") => Emits(last', "onSessionRestartFailed")]_vars

\* the completions the environment owes the service: every token request is
\* answered, every graceful stop is answered (acknowledged or failed), and a
\* due timeout runs
Fairness ==
  /\ WF_vars(\E k \in Callers : StartTokenOk(k) \/ StartTokenFail(k))
  /\ WF_vars(\E c \in ConnIds : RestartResume(c) \/ RestartStopErr(c))
  /\ WF_vars(\E c \in ConnIds : StopAck(c) \/ StopErr(c))
  /\ WF_vars(\E o \in Origins : DelayedRestart(o))

FairSpec == Spec /\ Fairness

RestartBegun == Emits(last, "onSessionRestarting")

RestartEnded ==
  Emits(last, "onSessionRestarted") \/ Emits(last, "onSessionRestartFailed")

\* C6: every restartSession that begins ends in a restarted or restart-failed
\* outcome, also when the stop of the old connection is not acknowledged.
C6_RestartEnds == RestartBegun ~> RestartEnded

\* a step of restartSession as the caller and the SDK see it: it makes one
\* of the restart callbacks, or it issues or consumes a graceful stop
RestartStep ==
  \/ Emits(last', "onSessionRestarting")
  \/ Emits(last', "onSessionRestarted")
  \/ Emits(last', "onSessionRestartFailed")
  \/ rsWait' # rsWait

\* a restartSession has returned from its start(): it created a connection
AfterRestart == \E c \in ConnIds : connBy[c] = "restart"

\* C7: no step of restartSession changes the speaker map, and an id first
\* seen in a final result after a restart gets the count of known ids plus
\* one while every other id keeps its number.
C7_RestartKeepsSpeakers ==
  [][/\ RestartStep => speakers' = speakers
     /\ (/\ AfterRestart
         /\ Emits(last', "onTranscribed")
         /\ Truthy(last'.sid)
         /\ speakers[last'.sid] = 0)
        => /\ speakers'[last'.sid] = SpeakersSize(speakers) + 1
           /\ last'.label = SpeakersSize(speakers) + 1
           /\ \A k \in SpeakerIds \ {last'.sid} : speakers'[k] = speakers[k]
    ]_vars

\* a restart has come to its onSessionRestarted with two speakers numbered
C7_Witness ==
  /\ Emits(last, "onSessionRestarted")
  /\ SpeakersSize(speakers) = 2
  /\ \E c \in ConnIds : connBy[c] = "restart" /\ connState[c] = "starting"

\* position of id in the order of first appearance (0 if it has none)
FirstSeenAt(id) ==
  IF Has(firstSeen, id)
  THEN CHOOSE i \in 1..Len(firstSeen) : firstSeen[i] = id
  ELSE 0

\* C8: the i-th id in the order of first appearance (since the map was last
\* empty) has number i, and every final result of a known id is labelled
\* with that number.
C8_FirstComeFirstServed ==
  /\ \A i \in 1..Len(firstSeen) : speakers[firstSeen[i]] = i
  /\ (Emits(last, "onTranscribed") /\ Truthy(last.sid))
       => last.label = FirstSeenAt(last.sid)

\* three ids are known and a later result of the first one is labelled 1
C8_Witness ==
  /\ Len(firstSeen) = 3
  /\ Emits(last, "onTranscribed")
  /\ last.sid = firstSeen[1]
  /\ last.label = 1

\* C9: a final result without speaker id is labelled Unknown and leaves the
\* speaker map as it was.
C9_NullIdFrame ==
  [][(Emits(last', "onTranscribed") /\ ~Truthy(last'.sid))
       => (speakers' = speakers /\ last'.label = 0)]_vars

\* a result without id was labelled Unknown between two numbered speakers
C9_Witness ==
  /\ Emits(last, "onTranscribed")
  /\ ~Truthy(last.sid)
  /\ last.label = 0
  /\ SpeakersSize(speakers) = 2

\* C10: a stop() right after a stop() changes no state of the controller,
\* closes nothing and makes no callback.
C10_StopIdempotent ==
  [][(last.stop # 0 /\ last'.stop # 0) =>
       /\ UNCHANGED <<svc, sdk, pend, app>>
       /\ conversationTranscriber = Null
       /\ audioConfig = Null
       /\ speechConfig = Null
       /\ last'.out = << >>]_vars

\* a second stop() has followed the stop() that closed the connection of a
\* running session
C10_Witness ==
  /\ last.stop = 2
  /\ isRunning
  /\ \E c \in ConnIds : connClosed[c] /\ usWait[c]

\* the canceled handler runs for a cancellation that is not classified
\* transient, on the connection of an Active session
FatalCancel ==
  \E c \in ConnIds, d \in ErrorDetails :
    ActiveOn(c) /\ ErrorMsg(d) # "timeout" /\ Canceled(c, d)

\* C11: a fatal cancellation of an Active session calls onError exactly once,
\* schedules and executes no restartSession, and leaves the session not
\* running until the caller calls start() again.
C11_FatalCancelEnds ==
  [][/\ FatalCancel => /\ last'.out = <<"onError">>
                       /\ delayed' = delayed
                       /\ rsWait' = rsWait
                       /\ startPending' = startPending
                       /\ ~isRunning'
     /\ failed' => ~isRunning']_vars

\* C12: a transient cancellation with auto-reconnect disabled calls onError
\* and schedules no restartSession; onError is suppressed and a restart is
\* scheduled only for a transient cancellation with auto-reconnect enabled
\* and the session running.
C12_TransientNeedsFlag ==
  [][\A c \in ConnIds, d \in ErrorDetails :
       Canceled(c, d) =>
         /\ (ErrorMsg(d) = "timeout" /\ ~autoReconnectEnabled)
              => (last'.out = <<"onError">> /\ delayed' = delayed)
         /\ (delayed' # delayed \/ ~Emits(last', "onError"))
              => /\ autoReconnectEnabled
                 /\ isRunning
                 /\ ErrorMsg(d) = "timeout"
                 /\ delayed' = [delayed EXCEPT !["canceled"] = @ + 1]
                 /\ last'.out = << >>]_vars

\* a transient cancellation has been reported through onError, auto-reconnect
\* being disabled, and no restart is scheduled
C12_Witness ==
  /\ last.err = "timeout"
  /\ ~autoReconnectEnabled
  /\ \E c \in ConnIds : connState[c] = "canceled"
  /\ \A o \in Origins : delayed[o] = 0

\* the session is Active: running on the connection the service holds
Active == \E c \in ConnIds : ActiveOn(c) /\ speechConfig # Null

\* C13: a token refresh that succeeds on an Active session leaves the session
\* Active on the same connection (nothing stopped, closed or restarted, the
\* timers as they were, the refresh interval armed), emits onTokenRefreshed
\* and does not emit onError.
C13_RefreshKeepsSession ==
  [][(Active /\ RefreshTokenOk) =>
       /\ UNCHANGED <<svc, sdk, startPending, delayed>>
       /\ Active'
       /\ tokenRefreshInterval'
       /\ last'.out = <<"onTokenRefreshed">>]_vars

\* a refresh has succeeded on an Active session with both timers armed
C13_Witness ==
  /\ Emits(last, "onTokenRefreshed")
  /\ Active
  /\ tokenRefreshInterval
  /\ sessionRestartTimer

\* C14: after a successful token refresh on an Active session the live
\* connection itself holds the newly fetched token, as the configuration
\* object does.
C14_LiveConnectionGetsToken ==
  (Emits(last, "onTokenRefreshed") /\ Active)
    => /\ cfgToken[speechConfig] = "refresh"
       /\ ConnToken(conversationTranscriber) = "refresh"

\* C15: a token refresh whose fetch fails on an Active session is reported
\* through onError and changes nothing else: the session stays running on
\* its open connection with the token it had, the timers stay as they were,
\* and the next tick of the refresh interval fetches again.
C15_RefreshFailureKeepsSession ==
  [][(Active /\ RefreshTokenFail) =>
       /\ last'.out = <<"onError">>
       /\ UNCHANGED <<svc, sdk, startPending, delayed, cfgToken>>
       /\ Active'
       /\ tokenRefreshInterval'
       /\ refreshPending' < MaxRefresh]_vars

\* a refresh has failed on an Active session: the session is still running
\* with both timers armed
C15_Witness ==
  /\ last.err = "refresh"
  /\ Active
  /\ tokenRefreshInterval
  /\ sessionRestartTimer

\* a start() awaits its token, or its connection awaits the open confirmation
Starting ==
  \/ \E k \in Callers : startPending[k] > 0
  \/ \E c \in ConnIds : connState[c] = "starting" /\ ~connClosed[c]

\* C16: a start() called while the session is running or Starting requests
\* no token, creates no connection and changes nothing in the service.
C16_StartNoOp ==
  [][(Start /\ (isRunning \/ Starting)) => UNCHANGED <<svc, sdk, pend>>]_vars

\* no connection of this run has confirmed open
NeverOpened ==
  \A c \in ConnIds : connState[c] \in {"unused", "starting", "failed"}

\* nothing in the service is waiting to fetch a token or to connect by
\* itself: no timer armed, no restart scheduled or suspended, no refresh
\* under way
Quiet ==
  /\ ~tokenRefreshInterval
  /\ ~sessionRestartTimer
  /\ \A o \in Origins : delayed[o] = 0
  /\ \A c \in ConnIds : rsWait[c] = 0 /\ rsHung[c] = 0
  /\ startPending["restart"] = 0
  /\ refreshPending = 0

\* a start() made by a caller fails before any connection has opened: its
\* token fetch fails, or its connection reports an error instead of opening
FirstStartFails ==
  /\ NeverOpened
  /\ \/ \E k \in Callers \ {"restart"} : StartTokenFail(k)
     \/ \E c \in ConnIds : connBy[c] # "restart" /\ ConnStartErr(c)

\* C17: a failure of the first start() is surfaced exactly once (start()
\* rejects, or onError is called) and leaves the session not running with no
\* timer armed and nothing scheduled; as long as no connection has opened,
\* a token is requested only by a caller's start() and a connection is
\* created only for such a request.
C17_FirstStartFailure ==
  [][/\ FirstStartFails =>
          /\ last'.out \in {<<"startRejected">>, <<"onError">>}
          /\ ~isRunning'
          /\ Quiet'
     /\ (/\ NeverOpened
         /\ \/ \E k \in Callers : startPending'[k] > startPending[k]
            \/ refreshPending' > refreshPending)
        => Start
     /\ (NeverOpened /\ nextConn' > nextConn)
        => \E k \in Callers \ {"restart"} : startPending'[k] < startPending[k]
    ]_vars

\* the connection of the first start() has failed to open with auto-reconnect
\* enabled, and nothing is under way
C17_Witness ==
  /\ last.err = "start"
  /\ autoReconnectEnabled
  /\ NeverOpened
  /\ ~Starting
  /\ ~isRunning

\* the start() of a restartSession fails: its token fetch fails, or the
\* connection it created reports an error instead of opening
RestartFails ==
  \/ StartTokenFail("restart")
  \/ \E c \in ConnIds : connBy[c] = "restart" /\ ConnStartErr(c)

\* C18: onSessionRestarted is emitted only when the connection of the restart
\* has confirmed open and the session is running again, and a restart whose
\* start() fails emits onSessionRestartFailed and onError and not
\* onSessionRestarted.
C18_RestartOutcomeMatches ==
  [][/\ Emits(last', "onSessionRestarted")
          => /\ isRunning'
             /\ \E c \in ConnIds : /\ connBy'[c] = "restart"
                                    /\ connState'[c] = "open"
                                    /\ ~connClosed'[c]
     /\ RestartFails => /\ Emits(last', "onSessionRestartFailed")
                        /\ Emits(last', "onError")
                        /\ ~Emits(last', "onSessionRestarted")]_vars

\* C19: when stop() returns isRunning is false, whether or not the stop is
\* ever acknowledged, and a start() called next requests a token.
C19_StopEndsRunning ==
  [][/\ last'.stop # 0 => ~isRunning'
     /\ (last.stop # 0 /\ Start)
          => startPending' = [startPending EXCEPT !["direct"] = @ + 1]]_vars

\* C20: handleStop leaves the speaker map empty, and the map is emptied only
\* by handleStop or handleClear.
C20_StopResetsSpeakers ==
  [][/\ HandleStop => speakers' = EmptySpeakers
     /\ (speakers # EmptySpeakers /\ speakers' = EmptySpeakers)
          => (HandleStop \/ HandleClear)]_vars

\* the sessionStopped handler runs on the connection of an Active session
\* with auto-reconnect enabled, no restart in flight and the session at least
\* 18 minutes old
TimeoutStop ==
  \E c \in ConnIds :
    /\ ActiveOn(c)
    /\ autoReconnectEnabled
    /\ RestartsInFlight = 0
    /\ SessionDuration >= STOP_TIMEOUT_MIN
    /\ SessionStopped(c)

\* C21: a stopped signal classified as a server-side timeout suppresses
\* onSessionStopped and schedules a restartSession, and that restartSession
\* executes (it emits onSessionRestarting) when its timeout fires with
\* auto-reconnect still enabled.
C21_TimeoutStopRestarts ==
  [][/\ TimeoutStop => /\ last'.out = << >>
                       /\ delayed' = [delayed EXCEPT !["stopped"] = @ + 1]
     /\ (DelayedRestart("stopped") /\ autoReconnectEnabled)
          => Emits(last', "onSessionRestarting")]_vars

\* C22: an Active session with auto-reconnect enabled is never older than the
\* proactive threshold of 19 minutes: the restart has been triggered by then.
C22_ProactiveBeforeLimit ==
  (Active /\ autoReconnectEnabled) => SessionDuration <= SESSION_TIMEOUT_MIN

\* connection c is constructed in this step
Constructed(c) == connState[c] = "unused" /\ connState'[c] # "unused"

\* C23: the connection a restartSession opens is constructed with the token
\* of a fetch that restartSession made after it began, not with the token
\* the kept configuration holds.
C23_RestartFetchesToken ==
  [][/\ \A c \in ConnIds :
          (Constructed(c) /\ connBy'[c] = "restart")
            => /\ startPending' = [startPending EXCEPT !["restart"] = @ - 1]
               /\ cfgToken'[c] = "start"
     /\ startPending'["restart"] > startPending["restart"]
          => \/ Emits(last', "onSessionRestarting")
             \/ \E c \in ConnIds : rsWait'[c] < rsWait[c]]_vars

\* a restart has constructed its connection with a fetched token after the
\* old connection, whose configuration held a refreshed token, was closed
C23_Witness ==
  \E c, o \in ConnIds :
    /\ connBy[c] = "restart"
    /\ connState[c] = "starting"
    /\ cfgToken[c] = "start"
    /\ connClosed[o]
    /\ cfgToken[o] = "refresh"

\* C24: the App's isListening is switched off only by a user stop, a failed
\* start, a cancellation reported through onError or a failed restart; a
\* failed token refresh does not switch it off.
C24_ListeningOffOnlyWhenEnded ==
  [][(isListening /\ ~isListening')
       => \/ last'.stop # 0
          \/ Emits(last', "startRejected")
          \/ last'.err \in {"start", "1006", "other", "timeout", "restart"}
    ]_vars

\* C25: the open confirmation of a restart's connection leaves
\* sessionStartTime as the first successful start set it, and only stop()
\* clears it.
C25_StartedAtPreserved ==
  [][/\ \A c \in ConnIds :
          (connBy[c] = "restart" /\ sessionAge # NoTime /\ ConnStartOk(c))
            => sessionAge' = sessionAge
     /\ (sessionAge # NoTime /\ sessionAge' = NoTime) => last'.stop # 0]_vars

\* connection c can raise result events
Delivering(c) == connState[c] = "open" /\ ~connClosed[c]

\* the id the priority order first-class field, parsed JSON, private result
\* selects: the id of the first place that holds one
FirstIdByPriority(r) ==
  IF Truthy(r.userId) THEN r.userId
  ELSE IF Truthy(r.speakerId) THEN r.speakerId
  ELSE IF r.json.kind = "obj" /\ Truthy(r.json.id) THEN r.json.id
  ELSE IF r.priv.kind = "obj" /\ Truthy(r.priv.id) THEN r.priv.id
  ELSE NoId

\* C26: every final result is forwarded with the id of the highest-priority
\* place that holds one (fields, then parsed JSON, then private result), and
\* without id only if none of the three holds one.
C26_ExtractByPriority ==
  \A c \in ConnIds, r \in AllResults :
    (Delivering(c) /\ Forwarded(r, "RecognizedSpeech"))
      => ENABLED (Transcribed(c, r) /\ last'.sid = FirstIdByPriority(r))

\* C27: extractSpeakerId returns an id or null for every result shape, and
\* every interim or final result with non-empty text is forwarded with it, a
\* result without usable id as an unknown speaker.
C27_ExtractionNeverFails ==
  \A c \in ConnIds, r \in AllResults :
    (Delivering(c) /\ r.text # "")
      => /\ ExtractSpeakerId(r) \in SpeakerIds \cup {NoId}
         /\ r.reason = "RecognizedSpeech"
              => ENABLED (/\ Transcribed(c, r)
                          /\ Emits(last', "onTranscribed")
                          /\ last'.sid = ExtractSpeakerId(r)
                          /\ ~Truthy(last'.sid) => last'.label = 0)
         /\ r.reason = "RecognizingSpeech"
              => ENABLED (/\ Transcribing(c, r)
                          /\ Emits(last', "onTranscribing")
                          /\ last'.sid = ExtractSpeakerId(r))

\* a final result whose JSON could not be used and which has no id in its
\* fields has been forwarded as an unknown speaker
C27_Witness ==
  /\ Emits(last, "onTranscribed")
  /\ last.src = "caught"
  /\ last.sid = NoId
  /\ last.label = 0

\* an event of the handler for results of the given reason carries nothing to
\* report: its text is empty or its reason is another one (NoMatch, say)
NothingToReport(r, reason) == r.text = "" \/ r.reason # reason

\* the step called no callback and left the service and the App as they were
Silent == last'.out = << >> /\ UNCHANGED <<svc, sdk, pend, app>>

\* C28: an interim or final result with empty text, or with a reason other
\* than recognizing / recognized speech, is handled without calling
\* onTranscribing, onTranscribed or onError and without changing the service
\* state or the speaker map.
C28_DroppedSilently ==
  \A c \in ConnIds, r \in AllResults :
    Delivering(c)
      => /\ NothingToReport(r, "RecognizedSpeech")
              => /\ ENABLED Transcribed(c, r)
                 /\ ~ENABLED (Transcribed(c, r) /\ ~Silent)
         /\ NothingToReport(r, "RecognizingSpeech")
              => /\ ENABLED Transcribing(c, r)
                 /\ ~ENABLED (Transcribing(c, r) /\ ~Silent)

\* a result was dropped while the speaker map held an entry
C28_Witness ==
  /\ last.src = "dropped"
  /\ last.out = << >>
  /\ speakers # EmptySpeakers
  /\ \E c \in ConnIds : Delivering(c)

\* C29: an interim result with non-empty text reaches the caller with its
\* speaker resolved through the speaker map as for a final result: a known id
\* carries its number, a new id is given the next number.
C29_InterimResolved ==
  [][(Emits(last', "onTranscribing") /\ Truthy(last'.sid))
       => /\ speakers' = OnTranscribedSpeakers(speakers, last'.sid)
          /\ last'.label = SpeakerNum(speakers', last'.sid)]_vars

\* C30: when the start() of a restart fails (token fetch failed, or the
\* connection did not open) the service is left with no refresh interval and
\* no restart timer armed, and the failure schedules no restart, so that
\* nothing fetches a token or opens a connection until a new trigger or a
\* start().
C30_NoRestartStorm ==
  [][RestartFails => /\ ~tokenRefreshInterval'
                     /\ ~sessionRestartTimer'
                     /\ delayed' = delayed]_vars

\* C31: restartSession cancels the refresh interval and the restart timer
\* before it stops the old connection, and while a restart is in flight (until
\* its new connection has confirmed open) neither timer is armed, so that no
\* timer callback can fire.
C31_NoTimerWhileRestarting ==
  RestartsInFlight > 0 => (~tokenRefreshInterval /\ ~sessionRestartTimer)

C33_RunningHasTimers ==
  isRunning => /\ tokenRefreshInterval
               /\ autoReconnectEnabled => sessionRestartTimer

\* the canceled or the sessionStopped handler of a connection runs
ServerEnds ==
  \/ \E c \in ConnIds, d \in ErrorDetails : Canceled(c, d)
  \/ \E c \in ConnIds : SessionStopped(c)

\* C34: once the canceled or sessionStopped handler has ended the session
\* the refresh interval is not armed, so no token is fetched for the dead
\* session.
C34_NoRefreshAfterServerEnd ==
  [][ServerEnds => (~isRunning' /\ ~tokenRefreshInterval')]_vars

\* C35: after stop() has returned and released the configuration, a token
\* refresh that was in flight (refreshToken starts no fetch without a
\* configuration) and whose fetch now completes calls no callback and changes
\* nothing in the service or the App.
C35_NoRefreshCallbackAfterStop ==
  [][(/\ afterStop
      /\ speechConfig = Null
      /\ RefreshTokenOk \/ RefreshTokenFail)
       => /\ last'.out = << >>
          /\ UNCHANGED <<svc, sdk, app, cfgToken>>]_vars

\* the ids the speaker map holds
KnownSpeakers == {k \in DOMAIN speakers : speakers[k] # 0}

\* C36: the speaker map never holds the null id, gives no two ids the same
\* number, and its numbers are exactly 1..n for its n ids; handleClear
\* empties it.
C36_SpeakerNumbersDense ==
  /\ [](/\ NoId \notin KnownSpeakers
        /\ \A j, k \in KnownSpeakers : speakers[j] = speakers[k] => j = k
        /\ {speakers[k] : k \in KnownSpeakers} = 1..Cardinality(KnownSpeakers))
  /\ [][HandleClear => speakers' = EmptySpeakers]_vars

\* after a restart the map holds three ids and the last final result was
\* given the number 3
C36_Witness ==
  /\ Cardinality(KnownSpeakers) = 3
  /\ AfterRestart
  /\ Emits(last, "onTranscribed")
  /\ last.label = 3

\* no call of start() or stop() of the MsSpeechTranscriber is under way
MsQuiescent ==
  \A r \in Created :
    /\ speech.recs[r].state # "starting"
    /\ \A k \in StopCallers : speech.recs[r].stops[k] = 0

\* the transcriber holds a recognizer that started successfully and was not
\* closed
HoldsStarted ==
  /\ speech.recognizer # Null
  /\ speech.recs[speech.recognizer].state = "started"
  /\ ~speech.recs[speech.recognizer].closed

\* C37: when start() or stop() is called with no other call under way, a
\* recognizer or push stream reference is replaced only if the object it
\* held has been closed, and isStarted() is true exactly when a successfully
\* started, unclosed recognizer is held.
C37_NoReferenceLost ==
  [][MsQuiescent =>
       /\ \A r \in Created :
            /\ (speech.recognizer = r /\ speech'.recognizer # r)
                  => speech'.recs[r].closed
            /\ (speech.pushStream = r /\ speech'.pushStream # r)
                  => speech'.recs[r].streamClosed
       /\ IsStarted <=> HoldsStarted]_vars

\* C38: stop() on a transcriber that is not started changes nothing; when
\* the graceful stop is acknowledged, stop() closes the recognizer and the
\* push stream it holds, releases both and isStarted() becomes false, and
\* pushAudio() on a transcriber that is not started drops the chunk; when
\* the graceful stop reports an error, stop() rejects and the fields of the
\* transcriber and its objects are left as they were.
C38_StopOutcomes ==
  [][/\ (MsStop /\ ~IsStarted)
          => /\ speech'.out = "stopReturned"
             /\ speech' = [speech EXCEPT !.out = "stopReturned"]
     /\ \A r \in Created :
          /\ MsStopAck(r, "stop")
               => /\ speech'.out = "stopResolved"
                  /\ ~IsStarted'
                  /\ speech'.recognizer = Null
                  /\ speech'.pushStream = Null
                  /\ speech.recognizer # Null
                       => speech'.recs[speech.recognizer].closed
                  /\ speech.pushStream # Null
                       => speech'.recs[speech.pushStream].streamClosed
          /\ MsStopErr(r, "stop")
               => /\ speech'.out = "stopRejected"
                  /\ speech'.started = speech.started
                  /\ speech'.recognizer = speech.recognizer
                  /\ speech'.pushStream = speech.pushStream
                  /\ \A q \in Created :
                       /\ speech'.recs[q].state = speech.recs[q].state
                       /\ speech'.recs[q].closed = speech.recs[q].closed
                       /\ speech'.recs[q].streamClosed
                            = speech.recs[q].streamClosed
     /\ (MsPushAudio /\ ~IsStarted) => speech'.out = "dropped"
    ]_vars

\* a chunk was dropped after the stop of a started recognizer was
\* acknowledged and everything was released
C38_Witness ==
  /\ speech.out = "dropped"
  /\ ~IsStarted
  /\ speech.recognizer = Null
  /\ \E r \in Created : /\ speech.recs[r].state = "stopped"
                         /\ speech.recs[r].closed
                         /\ speech.recs[r].streamClosed

\* the speaker map of the earlier App once the queued updates are applied
FRegistry == ApplyUpdates(frontend.updates, frontend.speakers)

\* C39: in the earlier App a final transcript with a speaker id is labelled
\* with the number the speaker map gives that id, also the first transcript
\* of a new id; it is never labelled Unknown.  Stated for the transcripts
\* that arrive while an earlier update is still queued, where React does not
\* run the updater inside setSpeakers.
C39_LabelFromRegistry ==
  [][\A id \in SpeakerIds :
       (frontend.updates # << >> /\ FTranscribed(id, FALSE))
         => /\ frontend'.label # 0
            /\ frontend'.label = FRegistry'[id]]_vars

=============================================================================
